---------------------------- MODULE Spec2Model ----------------------------
(***************************************************************************)
(* Model of prepipy's framework.py: Band, Frame, Picture and RGBPicture.   *)
(*                                                                         *)
(* Pixel values are IEEE floats in the program.  Here a finite value is a  *)
(* fixed-point integer counted in units of 1/One, and the three special    *)
(* floats NaN, +Inf and -Inf are integers outside the finite range.  An    *)
(* ndarray is a record [shape, px] with px the flattened pixel sequence.   *)
(***************************************************************************)
EXTENDS Integers, Sequences, FiniteSets, TLC

VARIABLES
    image,          \* SpecFrame: Frame.image of the frame under study (px sequence)
    background,     \* SpecFrame: Frame.background
    constructed,    \* SpecFrame: Frame.__init__ has returned normally
    frames,         \* Picture.frames: sequence of Frame records
    rgb_channels,   \* RGBPicture.rgb_channels: sequence of Frame records
    heap,           \* ndarray objects, by identity
    last            \* the call made by the last step and how it ended

vars == <<image, background, constructed, frames, rgb_channels, heap, last>>

frameVars == <<image, background, constructed>>
pictureVars == <<frames, rgb_channels, heap>>

-----------------------------------------------------------------------------
(* Floating point numbers *)

One == 200000
NaN == 2000000002
PosInf == 2000000001
NegInf == -2000000001

IsNaN(x) == x = NaN
IsInf(x) == x = PosInf \/ x = NegInf
IsFinite(x) == ~IsNaN(x) /\ ~IsInf(x)

Abs(x) == IF x < 0 THEN -x ELSE x
Sign(x) == IF x < 0 THEN -1 ELSE IF x > 0 THEN 1 ELSE 0

\* <<q, r>> with a * b = q * c + r and 0 <= r < c, for a, b >= 0 and c > 0,
\* computed without forming the product a * b: b is taken digit by digit, in
\* a base small enough for base * c to stay in range.
Base(c) == IF c <= 4000000 THEN 256 ELSE IF c <= 60000000 THEN 16 ELSE 2
RECURSIVE QuotRem(_, _, _)
QuotRem(a, b, c) ==
    IF b = 0 THEN <<0, 0>>
    ELSE LET h == QuotRem(a, b \div Base(c), c)
             d == b % Base(c)
             t == Base(c) * h[2] + d * (a % c)
         IN  <<Base(c) * h[1] + d * (a \div c) + (t \div c), t % c>>

\* a * b / c rounded towards zero
MulDiv(a, b, c) ==
    IF a <= b THEN QuotRem(b, a, c)[1] ELSE QuotRem(a, b, c)[1]

FNeg(x) ==
    IF IsNaN(x) THEN NaN
    ELSE IF x = PosInf THEN NegInf
    ELSE IF x = NegInf THEN PosInf
    ELSE -x

FAdd(x, y) ==
    IF IsNaN(x) \/ IsNaN(y) THEN NaN
    ELSE IF IsInf(x) THEN (IF IsInf(y) /\ x # y THEN NaN ELSE x)
    ELSE IF IsInf(y) THEN y
    ELSE x + y

FSub(x, y) == FAdd(x, FNeg(y))

FMul(x, y) ==
    IF IsNaN(x) \/ IsNaN(y) THEN NaN
    ELSE IF IsInf(x) \/ IsInf(y)
         THEN (IF x = 0 \/ y = 0 THEN NaN
               ELSE IF Sign(x) * Sign(y) > 0 THEN PosInf ELSE NegInf)
    ELSE Sign(x) * Sign(y) * MulDiv(Abs(x), Abs(y), One)

FDiv(x, y) ==
    IF IsNaN(x) \/ IsNaN(y) THEN NaN
    ELSE IF IsInf(x)
         THEN (IF IsInf(y) THEN NaN
               ELSE IF (x > 0) = (y >= 0) THEN PosInf ELSE NegInf)
    ELSE IF IsInf(y) THEN 0
    ELSE IF y = 0
         THEN (IF x = 0 THEN NaN ELSE IF x > 0 THEN PosInf ELSE NegInf)
    ELSE Sign(x) * Sign(y) * MulDiv(Abs(x), One, Abs(y))

\* x times the integer k
FScale(x, k) ==
    IF IsNaN(x) THEN NaN
    ELSE IF IsInf(x)
         THEN (IF k = 0 THEN NaN ELSE IF (x > 0) = (k > 0) THEN PosInf ELSE NegInf)
    ELSE x * k

\* comparisons are false when an operand is NaN
FLt(x, y) == ~IsNaN(x) /\ ~IsNaN(y) /\ x < y
FLe(x, y) == ~IsNaN(x) /\ ~IsNaN(y) /\ x <= y

\* np.minimum / np.maximum: NaN propagates
FMinimum(x, y) == IF IsNaN(x) \/ IsNaN(y) THEN NaN ELSE IF x < y THEN x ELSE y
FMaximum(x, y) == IF IsNaN(x) \/ IsNaN(y) THEN NaN ELSE IF x > y THEN x ELSE y

RECURSIVE ISqrt(_)
ISqrt(n) ==
    IF n < 2 THEN n
    ELSE LET s == 2 * ISqrt(n \div 4)
         IN  IF (s + 1) * (s + 1) <= n THEN s + 1 ELSE s

-----------------------------------------------------------------------------
(* numpy reductions over a pixel sequence *)

Idx(px) == 1 .. Len(px)

NonNaN(px) == SelectSeq(px, LAMBDA x : ~IsNaN(x))
HasNaN(px) == \E i \in Idx(px) : IsNaN(px[i])

RECURSIVE FSum(_)
FSum(px) == IF px = <<>> THEN 0 ELSE FAdd(Head(px), FSum(Tail(px)))

\* the largest / smallest element under the total order of the integers
SeqMax(px) == CHOOSE x \in {px[i] : i \in Idx(px)} : \A i \in Idx(px) : px[i] <= x
SeqMin(px) == CHOOSE x \in {px[i] : i \in Idx(px)} : \A i \in Idx(px) : px[i] >= x

\* np.nanmax, np.nanmin: NaN (and a RuntimeWarning) for an all-NaN array
NanMax(px) == IF NonNaN(px) = <<>> THEN NaN ELSE SeqMax(NonNaN(px))
NanMin(px) == IF NonNaN(px) = <<>> THEN NaN ELSE SeqMin(NonNaN(px))

\* sum / n
MeanOf(px) ==
    LET s == FSum(px)
    IN  IF px = <<>> THEN NaN
        ELSE IF IsFinite(s) THEN s \div Len(px) ELSE s

\* np.mean is MeanOf, NaN propagates; np.nanmean: NaNs are left out
NanMean(px) == MeanOf(NonNaN(px))

\* np.std of NaN-free data: sqrt(mean(|x - mean|^2)).  The squares are formed
\* at a precision that follows the spread of the data, as a float's does.
StdOf(px) ==
    LET m == MeanOf(px)
    IN  IF px = <<>> \/ ~IsFinite(m) THEN NaN
        ELSE LET d == [i \in Idx(px) |-> Abs(px[i] - m)]
                 u == 1 + (SeqMax(d) \div 16384)
                 sq == [i \in Idx(px) |-> (d[i] \div u) * (d[i] \div u)]
             IN  u * ISqrt(FSum(sq) \div Len(px))

NanStd(px) == StdOf(NonNaN(px))

Sorted(px) == SortSeq(px, LAMBDA a, b : a < b)

MedianOf(px) ==
    LET s == Sorted(px)
        n == Len(px)
    IN  IF n = 0 THEN NaN
        ELSE IF n % 2 = 1 THEN s[(n + 1) \div 2]
        ELSE MeanOf(<<s[n \div 2], s[n \div 2 + 1]>>)

\* np.median: NaN if any pixel is NaN; np.nanmedian: NaNs are left out
Median(px) == IF HasNaN(px) THEN NaN ELSE MedianOf(px)
NanMedian(px) == MedianOf(NonNaN(px))

\* ndarray.clip(None, hi), ndarray.clip(lo, None), ndarray.clip(lo, hi):
\* minimum(maximum(x, lo), hi), a side given as None left open
ClipUpper(px, hi) == [i \in Idx(px) |-> FMinimum(px[i], hi)]
ClipLower(px, lo) == [i \in Idx(px) |-> FMaximum(px[i], lo)]
ClipBoth(px, lo, hi) == ClipUpper(ClipLower(px, lo), hi)

-----------------------------------------------------------------------------
(* Frame *)

NoErr == "ok"

\* np.isclose(a, b, atol=1e-5) with numpy's default rtol=1e-5:
\* |a - b| <= atol + rtol * |b|, never true of a NaN
Atol == One \div 100000
Rtol(b) == Abs(b) \div 100000
IsClose(a, b) ==
    IF IsNaN(a) \/ IsNaN(b) THEN FALSE
    ELSE IF IsInf(a) \/ IsInf(b) THEN a = b
    ELSE Abs(a - b) <= Atol + Rtol(b)

\* np.nan_to_num(image, copy=False, nan=nan): NaN becomes nan, the infinities
\* become the largest and smallest finite float
FloatMax == 1000000000
NanToNum(px, nan) ==
    [i \in Idx(px) |-> IF IsNaN(px[i]) THEN nan
                       ELSE IF px[i] = PosInf THEN FloatMax
                       ELSE IF px[i] = NegInf THEN -FloatMax
                       ELSE px[i]]

\* Frame.clip_and_nan(clip, nanmode) on self.image = px (changed in place).
\* The result is the array as the call leaves it and the exception raised.
ClipAndNanNoAssert(px, clip, nanmode) ==
    LET med == NanMean(px)
        upper_limit == IF clip # 0 THEN FAdd(med, FScale(NanStd(px), clip))
                       ELSE NanMax(px)
        clipped == IF clip # 0 THEN ClipUpper(px, upper_limit) ELSE px
        nan == IF nanmode = "max" THEN upper_limit ELSE med
        filled == NanToNum(clipped, nan)
    IN  IF clip < 0 THEN [px |-> px, err |-> "ValueError"]
        ELSE IF nanmode \notin {"max", "median"}
             THEN [px |-> clipped, err |-> "ValueError"]
        ELSE [px |-> filled, err |-> NoErr]

\* faulty variant: a symmetric clip, the lower side clipped too
ClipAndNanBothSides(px, clip, nanmode) ==
    LET med == NanMean(px)
        sig == FScale(NanStd(px), clip)
        r == ClipAndNanNoAssert(px, clip, nanmode)
    IN  IF clip > 0 /\ r.err = NoErr
        THEN [r EXCEPT !.px = ClipLower(r.px, FSub(med, sig))]
        ELSE r

ClipAndNan(px, clip, nanmode) ==
    LET r == ClipAndNanNoAssert(px, clip, nanmode)
    IN  IF r.err = NoErr /\ HasNaN(r.px)
        THEN [px |-> r.px, err |-> "AssertionError"]
        ELSE r

\* Frame.clip(n_sigma, lower): limits around the fixed background, sigma
\* measured on the current pixels
Clip(px, bg, n_sigma, lower) ==
    LET sig == FScale(NanStd(px), n_sigma)
        upper_limit == FAdd(bg, sig)
        lower_limit == FSub(bg, sig)
    IN  IF lower THEN ClipBoth(px, lower_limit, upper_limit)
        ELSE ClipUpper(px, upper_limit)

\* the rescale of Frame.normalize: subtract data_min, divide by data_range,
\* multiply by new_range, add new_offset
Rescale(px, data_min, data_range, new_range, new_offset) ==
    LET unit == [i \in Idx(px) |-> FDiv(FSub(px[i], data_min), data_range)]
    IN  [i \in Idx(px) |-> FAdd(FMul(unit[i], new_range), new_offset)]

\* faulty variant: the minimum is not subtracted
NormalizeNoSubtract(px, new_range, new_offset) ==
    LET data_max == NanMax(px)
        data_min == NanMin(px)
        data_range == FSub(data_max, data_min)
    IN  IF IsClose(data_min, 0) /\ IsClose(data_max, One)
        THEN [px |-> px, ret |-> <<data_range, data_max>>]
        ELSE [px |-> Rescale(px, 0, data_range, new_range, new_offset),
              ret |-> <<data_range, data_max>>]

\* Frame.normalize(new_range, new_offset): the pixels as the call leaves them
\* and the returned (data_range, data_max)
Normalize(px, new_range, new_offset) ==
    LET data_max == NanMax(px)
        data_min == NanMin(px)
        data_range == FSub(data_max, data_min)
    IN  IF IsClose(data_min, 0) /\ IsClose(data_max, One)
        THEN [px |-> px, ret |-> <<data_range, data_max>>]
        ELSE [px |-> Rescale(px, data_min, data_range, new_range, new_offset),
              ret |-> <<data_range, data_max>>]

-----------------------------------------------------------------------------
(* SpecFrame: one Frame, from the raw array it is built on through its      *)
(* clip / clip_and_nan / normalize calls                                    *)

MaxFrameOps == 2

Half == One \div 2
\* raw input arrays (1 x 3): finite pixels and NaNs
RawImages ==
    { <<0, Half, One>>,
      <<0, 0, One>>,
      <<0, Half, One + 3>>,
      <<0, Half, One + 6>>,
      <<1, Half, One>>,
      <<Half, Half, Half>>,
      <<-Half, One, 3 * One>>,
      <<NaN, Half, One>>,
      <<NaN, NaN, 2 * One>>,
      <<NaN, NaN, NaN>> }

ClipSigmas == {-1, 0, 1, 10}
NanModes == {"max", "median", "mean"}
NSigmas == {1, 3}
NormArgs == { <<One, 0>>, <<2 * One, 0>>, <<One, Half>> }

NonDegenerate(px) == ~HasNaN(px) /\ px # <<>> /\ SeqMax(px) > SeqMin(px)

NoPicture == frames = <<>> /\ rgb_channels = <<>> /\ heap = <<>>

FrameCall(op, args, err, ret) ==
    [op |-> op, args |-> args, err |-> err, ret |-> ret,
     pre |-> image, nondeg |-> NonDegenerate(image),
     prev |-> [op |-> last.op, args |-> last.args, err |-> last.err,
               nondeg |-> last.nondeg],
     n |-> IF constructed THEN last.n + 1 ELSE 0]

InitFrame ==
    /\ image \in RawImages
    /\ background = NaN
    /\ constructed = FALSE
    /\ NoPicture
    /\ last = [op |-> "raw", args |-> <<>>, err |-> NoErr, ret |-> <<>>,
               pre |-> <<>>, nondeg |-> FALSE,
               prev |-> [op |-> "raw", args |-> <<>>, err |-> NoErr,
                         nondeg |-> FALSE],
               n |-> 0]

\* Frame.__init__(image, band, header, clip=, nanmode=)
FrameInit ==
    \E clip \in ClipSigmas, nanmode \in NanModes :
        LET r == ClipAndNan(image, clip, nanmode)
        IN  /\ ~constructed
            /\ last.op = "raw"
            /\ background' = NanMedian(image)
            /\ image' = r.px
            /\ constructed' = (r.err = NoErr)
            /\ last' = FrameCall("__init__", <<clip, nanmode>>, r.err, <<>>)
            /\ UNCHANGED pictureVars

FrameClipAndNan ==
    \E clip \in ClipSigmas, nanmode \in NanModes :
        LET r == ClipAndNan(image, clip, nanmode)
        IN  /\ constructed
            /\ last.n < MaxFrameOps
            /\ image' = r.px
            /\ last' = FrameCall("clip_and_nan", <<clip, nanmode>>, r.err, <<>>)
            /\ UNCHANGED <<background, constructed, pictureVars>>

FrameClip ==
    \E n_sigma \in NSigmas, lower \in BOOLEAN :
        /\ constructed
        /\ last.n < MaxFrameOps
        /\ image' = Clip(image, background, n_sigma, lower)
        /\ last' = FrameCall("clip", <<n_sigma, lower>>, NoErr, <<>>)
        /\ UNCHANGED <<background, constructed, pictureVars>>

FrameNormalize ==
    \E a \in NormArgs :
        LET r == Normalize(image, a[1], a[2])
        IN  /\ constructed
            /\ last.n < MaxFrameOps
            /\ image' = r.px
            /\ last' = FrameCall("normalize", a, NoErr, r.ret)
            /\ UNCHANGED <<background, constructed, pictureVars>>

NextFrame ==
    \/ FrameInit
    \/ FrameClipAndNan
    \/ FrameClip
    \/ FrameNormalize

SpecFrame == InitFrame /\ [][NextFrame]_vars

-----------------------------------------------------------------------------
(* Band, Frame objects and the ndarray heap *)

\* Band(name, printname=None, wavelength=None): a dataclass, equal when all
\* fields are equal.  wavelength is <<>> for None and <<w>> otherwise.
Band(name, printname, wavelength) ==
    [name |-> name, printname |-> printname, wavelength |-> wavelength]
BandOfStr(name) == Band(name, "None", <<>>)

NewArray(shape, px) == [shape |-> shape, px |-> px]
NewFrame(band, id, bg) == [band |-> band, image |-> id, background |-> bg]

\* Picture.bands
bands(fs) == [i \in 1 .. Len(fs) |-> fs[i].band]
InSeq(x, sq) == \E i \in 1 .. Len(sq) : sq[i] = x

\* the arrays still referenced, in the order frames then rgb_channels first
\* refer to them; everything else is garbage
RECURSIVE Dedupe(_)
Dedupe(sq) ==
    IF sq = <<>> THEN <<>>
    ELSE LET front == Dedupe(SubSeq(sq, 1, Len(sq) - 1))
             x == sq[Len(sq)]
         IN  IF InSeq(x, front) THEN front ELSE Append(front, x)

Live(fs, cs) ==
    Dedupe([i \in 1 .. Len(fs) |-> fs[i].image] \o [i \in 1 .. Len(cs) |-> cs[i].image])

IndexOf(x, sq) == CHOOSE i \in 1 .. Len(sq) : sq[i] = x

\* the object graph with garbage dropped and array identities renumbered
Collect(fs, cs, hp) ==
    LET live == Live(fs, cs)
        move(f) == [f EXCEPT !.image = IndexOf(f.image, live)]
    IN  [frames |-> [i \in 1 .. Len(fs) |-> move(fs[i])],
         rgb_channels |-> [i \in 1 .. Len(cs) |-> move(cs[i])],
         heap |-> [k \in 1 .. Len(live) |-> hp[live[k]]]]

\* Frame.__init__(image, band) with the default clip=10, nanmode="max", on the
\* array id of heap hp: the frame, the heap with the array as clip_and_nan
\* leaves it, and the exception raised
DefaultClip == 10
\* faulty variant: the background is measured after clip_and_nan
FrameNewLate(hp, id, band) ==
    LET r == ClipAndNan(hp[id].px, DefaultClip, "max")
    IN  [frame |-> NewFrame(band, id, NanMedian(r.px)),
         heap |-> [hp EXCEPT ![id].px = r.px],
         err |-> r.err]
FrameNew(hp, id, band) ==
    LET r == ClipAndNan(hp[id].px, DefaultClip, "max")
    IN  [frame |-> NewFrame(band, id, NanMedian(hp[id].px)),
         heap |-> [hp EXCEPT ![id].px = r.px],
         err |-> r.err]

-----------------------------------------------------------------------------
(* SpecPicture: frames added to a Picture *)

MaxFrames == 2

Images ==
    { NewArray(<<1, 3>>, <<0, Half, One>>),
      NewArray(<<1, 3>>, <<One, 0, 0>>),
      NewArray(<<1, 2>>, <<Half, One>>) }

\* what a caller passes as band: a str, a Band, or something else
BandInputs ==
    { [type |-> "str", name |-> "R"],
      [type |-> "str", name |-> "G"],
      [type |-> "Band", band |-> Band("R", "R", <<3>>)],
      [type |-> "Band", band |-> Band("R", "R", <<5>>)],
      [type |-> "Band", band |-> Band("G", "Green", <<2>>)],
      [type |-> "int"] }

\* files on disk: a suffix and, for a FITS file, the image data it holds
Files ==
    { [suffix |-> ".fits", data |-> a] : a \in Images } \cup
    { [suffix |-> ".jpg", data |-> NewArray(<<1, 3>>, <<0, Half, One>>)] }

NameOfInput(b) ==
    IF b.type = "str" THEN b.name ELSE IF b.type = "Band" THEN b.band.name ELSE ""

NamePresent(name, fs) == \E i \in 1 .. Len(fs) : fs[i].band.name = name

\* Picture._check_band(band)
check_band(fs, b) ==
    IF b.type \notin {"str", "Band"} THEN [err |-> "TypeError"]
    ELSE LET band == IF b.type = "str" THEN BandOfStr(b.name) ELSE b.band
         IN  IF InSeq(band, bands(fs)) THEN [err |-> "BandExistsError"]
             ELSE [err |-> NoErr, band |-> band]

PictureCall(op, err, present) ==
    [op |-> op, err |-> err, present |-> present]

IdleFrame == image = <<>> /\ background = NaN /\ constructed = FALSE

InitPicture ==
    /\ frames = <<>>
    /\ rgb_channels = <<>>
    /\ heap = <<>>
    /\ IdleFrame
    /\ last = PictureCall("Picture", NoErr, FALSE)

\* the state after appending to frames the Frame f that Frame.__init__ built
WithFrame(f) ==
    IF f.err = NoErr
    THEN [frames |-> Append(frames, f.frame), heap |-> f.heap, err |-> NoErr]
    ELSE [frames |-> frames, heap |-> heap, err |-> f.err]

\* the state after appending to frames a Frame built on a new array
Appended(arr, band) == WithFrame(FrameNew(Append(heap, arr), Len(heap) + 1, band))

\* the state a call leaves when it raised err before touching frames
Raised(err) == [frames |-> frames, heap |-> heap, err |-> err]

\* Picture.add_frame(image, band)
add_frame ==
    \E arr \in Images, b \in BandInputs :
        \E c \in {check_band(frames, b)} :
            \E r \in {IF c.err = NoErr THEN Appended(arr, c.band) ELSE Raised(c.err)} :
                /\ Len(frames) < MaxFrames
                /\ frames' = r.frames
                /\ heap' = r.heap
                /\ last' = PictureCall("add_frame", r.err,
                                       NamePresent(NameOfInput(b), frames))
                /\ UNCHANGED <<rgb_channels, frameVars>>

\* Picture.add_frame_from_file(filename, band, framelist): with a framelist
\* the new Frame goes to that list and self.frames is left alone
add_frame_from_file ==
    \E file \in Files, b \in BandInputs, framelist \in {"None", "list"} :
        \E c \in {check_band(frames, b)} :
            \E new \in {IF c.err # NoErr THEN Raised(c.err)
                         ELSE IF file.suffix # ".fits" THEN Raised("FileTypeError")
                         ELSE Appended(file.data, c.band)} :
                \E r \in {IF framelist = "None" THEN new ELSE Raised(new.err)} :
                    /\ Len(frames) < MaxFrames
                    /\ frames' = r.frames
                    /\ heap' = r.heap
                    /\ last' = PictureCall("add_frame_from_file", r.err,
                                           NamePresent(NameOfInput(b), frames))
                    /\ UNCHANGED <<rgb_channels, frameVars>>

\* Picture.add_fits_frames_mp(input_path, fname_template, bands): one file and
\* one new Frame per band, then self.frames is replaced by the new list
RECURSIVE Loaded(_, _)
Prepend(f, rest) == [frames |-> <<f.frame>> \o rest.frames, heap |-> f.heap]
LoadedOnto(rest, arr, band) ==
    Prepend(FrameNew(Append(rest.heap, arr), Len(rest.heap) + 1, band), rest)
Loaded(bs, arrs) ==
    IF bs = <<>> THEN [frames |-> <<>>, heap |-> <<>>]
    ELSE LoadedOnto(Loaded(Tail(bs), Tail(arrs)), Head(arrs), Head(bs))

\* the FITS file the template names for a band: its name decides the file
MpBands == {Band("R", "R", <<3>>), Band("R", "Red", <<3>>), Band("G", "Green", <<2>>)}
FileOfBand(band) ==
    IF band.name = "R" THEN NewArray(<<1, 3>>, <<0, Half, One>>)
    ELSE NewArray(<<1, 2>>, <<Half, One>>)

add_fits_frames_mp ==
    \E n \in 0 .. MaxFrames :
        \E bs \in [1 .. n -> MpBands] :
            \E new \in {Loaded(bs, [i \in 1 .. n |-> FileOfBand(bs[i])])} :
                \E r \in {Collect(new.frames, <<>>, new.heap)} :
                    /\ frames' = IF n = 0 THEN frames ELSE r.frames
                    /\ heap' = IF n = 0 THEN heap ELSE r.heap
                    /\ last' = PictureCall("add_fits_frames_mp",
                                           IF n = 0 THEN "ValueError" ELSE NoErr, FALSE)
                    /\ UNCHANGED <<rgb_channels, frameVars>>

\* Picture.cube: np.stack raises for no arrays or arrays of different shapes
SameShapes(fs) == \A i, j \in 1 .. Len(fs) : heap[fs[i].image].shape = heap[fs[j].image].shape
cube ==
    /\ last' = PictureCall("cube",
                           IF frames # <<>> /\ SameShapes(frames) THEN NoErr
                           ELSE "ValueError", FALSE)
    /\ UNCHANGED <<frames, heap, rgb_channels, frameVars>>

NextPicture ==
    \/ add_frame
    \/ add_frame_from_file
    \/ add_fits_frames_mp
    \/ cube

SpecPicture == InitPicture /\ [][NextPicture]_vars

-----------------------------------------------------------------------------
(* Frame: the STIFF stretch *)

\* Python's max(a, b) and min(a, b) of two floats: a unless b compares beyond it
PyMax2(a, b) == IF FLt(a, b) THEN b ELSE a
PyMin2(a, b) == IF FLt(b, a) THEN b ELSE a

\* Python's max(list) of floats: ValueError for an empty list is the caller's case
RECURSIVE PyMax(_)
PyMax(s) ==
    IF Len(s) = 1 THEN s[1]
    ELSE PyMax2(PyMax(SubSeq(s, 1, Len(s) - 1)), s[Len(s)])

\* Powers with a fractional exponent are computed at the resolution 1 / Fine,
\* for arguments in 0 .. 1: r ** n by squaring, and the p-th root as the
\* largest r with r ** p <= x
Fine == 250 * One
FineMul(a, b) == MulDiv(a, b, Fine)
FineSquare(h) == FineMul(h, h)
RECURSIVE FinePow(_, _)
FinePow(r, n) ==
    IF n = 0 THEN Fine
    ELSE IF n % 2 = 0 THEN FineSquare(FinePow(r, n \div 2))
    ELSE FineMul(r, FinePow(r, n - 1))
RECURSIVE FineRoot(_, _, _, _)
FineRoot(lo, hi, x, p) ==
    IF hi - lo <= 1 THEN lo
    ELSE IF FinePow((lo + hi) \div 2, p) <= x THEN FineRoot((lo + hi) \div 2, hi, x, p)
    ELSE FineRoot(lo, (lo + hi) \div 2, x, p)
UnitPow(x, p, q) ==
    IF x = 0 THEN 0
    ELSE (FinePow(FineRoot(0, Fine + 1, x * (Fine \div One), p), q) + Fine \div (2 * One))
            \div (Fine \div One)

\* x ** (1 / gamma) for gamma = <<p, q>>, the fraction p / q
FRoot(x, gamma) ==
    IF gamma[1] = gamma[2] \/ IsNaN(x) \/ x = PosInf THEN x
    ELSE IF x < 0 THEN NaN
    ELSE IF gamma = <<2, 1>>
    THEN IF x <= 5 * One THEN 10 * ISqrt(2000 * x) ELSE 1000 * ISqrt(x \div 5)
    ELSE IF x <= One THEN UnitPow(x, gamma[1], gamma[2])
    ELSE FDiv(One, UnitPow(FDiv(One, x), gamma[1], gamma[2]))

\* np.quantile(data, q) with q in thousandths: linear interpolation between
\* the two order statistics around q * (n - 1); NaN if any pixel is NaN
Quantile(px, q) ==
    LET s == Sorted(px)
        lo == (q * (Len(px) - 1)) \div 1000
        fr == (q * (Len(px) - 1)) % 1000
    IN  IF HasNaN(px) THEN NaN
        ELSE IF lo + 2 > Len(px) THEN s[Len(px)]
        ELSE FAdd(s[lo + 1], FMul(FSub(s[lo + 2], s[lo + 1]), fr * (One \div 1000)))

\* Frame._apply_mask(data, mask): a mask is a boolean array, <<>> stands for
\* None; a mask that selects nothing or does not fit the data is ignored
RECURSIVE Masked(_, _)
Masked(px, mask) ==
    IF px = <<>> THEN <<>>
    ELSE (IF Head(mask) THEN <<Head(px)>> ELSE <<>>) \o Masked(Tail(px), Tail(mask))
apply_mask(px, mask) ==
    IF mask = <<>> THEN px
    ELSE IF \A i \in Idx(mask) : ~mask[i] THEN px
    ELSE IF Len(mask) # Len(px) THEN px
    ELSE Masked(px, mask)

\* Frame._min_inten(gamma_lum, grey_level, sky_mode, max_mode, mask);
\* sky_mode "clipmedian" (astropy's sigma_clipped_stats) is not drawn
GreyLevel == (3 * One) \div 10
ISky(px, sky_mode) ==
    IF sky_mode = "quantile" THEN Quantile(px, 800)
    ELSE IF sky_mode = "median" THEN NanMedian(px)
    ELSE One \div 100
IMax(px, max_mode) ==
    IF max_mode = "quantile" THEN Quantile(px, 995)
    ELSE IF max_mode = "max" THEN NanMax(px)
    ELSE One - 4
IMin(i_sky, i_max, p_grey_g) ==
    PyMax2(FDiv(FSub(i_sky, FMul(p_grey_g, i_max)), FSub(One, p_grey_g)), 0)
MinIntenOf(i_sky, i_max, p_grey_g) ==
    [err |-> NoErr, i_min |-> IMin(i_sky, i_max, p_grey_g), i_max |-> i_max]
MinIntenOn(data, kw) ==
    IF kw.sky_mode \notin {"quantile", "median", "debug"}
       \/ kw.max_mode \notin {"quantile", "max", "debug"}
    THEN [err |-> "ValueError", i_min |-> NaN, i_max |-> NaN]
    ELSE MinIntenOf(ISky(data, kw.sky_mode), IMax(data, kw.max_mode),
                    FRoot(kw.grey_level, <<kw.gamma_lum[2], kw.gamma_lum[1]>>))
min_inten(px, kw) == MinIntenOn(apply_mask(px, kw.mask), kw)

\* def_kwargs of stiff_stretch_legacy; of STIFF_PARAMS, which
\* resources/stiff_params.yml holds, the key of the default stiff_mode
Preset(gamma, a, b, i_t) == [gamma |-> gamma, a |-> a, b |-> b, i_t |-> i_t]
def_kwargs ==
    "power-law" :> Preset(<<11, 5>>, One, 0, 0)
    @@ "srgb" :> Preset(<<12, 5>>, (1292 * One) \div 100, (55 * One) \div 1000,
                        (304 * One) \div 100000)
    @@ "rec709" :> Preset(<<111, 50>>, (9 * One) \div 2, (99 * One) \div 1000,
                          (18 * One) \div 1000)
    @@ "prepi" :> Preset(<<9, 4>>, 3 * One, One \div 20, One \div 1000)
    @@ "debug0" :> Preset(<<9, 4>>, 3 * One, (8 * One) \div 100, (3 * One) \div 1000)
    @@ "debug1" :> Preset(<<9, 4>>, 3 * One, One \div 10, (8 * One) \div 10)
    @@ "debug2" :> Preset(<<9, 4>>, 3 * One, One \div 20, (3 * One) \div 1000)
    @@ "debug3" :> Preset(<<9, 4>>, 3 * One, One \div 20, (3 * One) \div 1000)
STIFF_PARAMS == {"power-law"}

\* the defaults of the keyword arguments of setup_stiff, _min_inten and the
\* stretch functions
StiffDefaults ==
    [gamma_lum |-> <<1, 1>>, grey_level |-> GreyLevel, sky_mode |-> "median",
     max_mode |-> "quantile", mask |-> <<>>, legacy |-> FALSE,
     stiff_mode |-> "power-law"]

\* def_kwargs[stiff_mode] | kwargs
Merged(kw) ==
    [k \in {"gamma", "a", "b", "i_t"} |->
        IF k \in DOMAIN kw THEN kw[k] ELSE def_kwargs[kw.stiff_mode][k]]

\* image < i_t and image >= i_t as the floats 1. and 0.
Below(x, i_t) == IF FLt(x, i_t) THEN One ELSE 0
NotBelow(x, i_t) == IF FLe(i_t, x) THEN One ELSE 0

\* Frame.stiff_stretch_legacy(image, **kwargs), one pixel
stiff_stretch_legacy(x, kw) ==
    FSub(FAdd(FMul(FMul(kw.a, x), Below(x, kw.i_t)),
              FMul(One + kw.b, FRoot(x, kw.gamma))),
         FMul(kw.b, NotBelow(x, kw.i_t)))

\* Frame.stiff_stretch(image, **kwargs), one pixel
stiff_stretch(x, kw) ==
    FAdd(FMul(FMul(kw.a, x), Below(x, kw.i_t)),
         FMul(FSub(FMul(One + kw.b, FRoot(x, kw.gamma)), kw.b),
              One - Below(x, kw.i_t)))

\* faulty variant: the stretched array is not multiplied by data_range
StiffStretchedUnscaled(clipped, data_range, kw) ==
    IF kw.stiff_mode \notin (IF kw.legacy THEN DOMAIN def_kwargs ELSE STIFF_PARAMS)
    THEN [old |-> clipped, new |-> <<>>, err |-> "KeyError"]
    ELSE [old |-> clipped,
          new |-> [i \in Idx(clipped) |->
                     IF kw.legacy THEN stiff_stretch_legacy(clipped[i], Merged(kw))
                     ELSE stiff_stretch(clipped[i], kw)],
          err |-> NoErr]

\* Frame.setup_stiff(**kwargs) on self.image = px: old is the array as the call
\* leaves it (normalized and clipped in place), new the array self.image is
\* rebound to
StiffStretched(clipped, data_range, kw) ==
    IF kw.stiff_mode \notin (IF kw.legacy THEN DOMAIN def_kwargs ELSE STIFF_PARAMS)
    THEN [old |-> clipped, new |-> <<>>, err |-> "KeyError"]
    ELSE [old |-> clipped,
          new |-> [i \in Idx(clipped) |->
                     FMul(IF kw.legacy THEN stiff_stretch_legacy(clipped[i], Merged(kw))
                          ELSE stiff_stretch(clipped[i], kw),
                          data_range)],
          err |-> NoErr]
\* faulty variant: the range is measured again on the clipped array
StiffClippedRemeasured(n, lim, kw) ==
    IF lim.err # NoErr THEN [old |-> n.px, new |-> <<>>, err |-> lim.err]
    ELSE StiffStretched(ClipBoth(n.px, lim.i_min, lim.i_max),
                        FSub(NanMax(ClipBoth(n.px, lim.i_min, lim.i_max)),
                             NanMin(ClipBoth(n.px, lim.i_min, lim.i_max))), kw)
StiffClipped(n, lim, kw) ==
    IF lim.err # NoErr THEN [old |-> n.px, new |-> <<>>, err |-> lim.err]
    ELSE StiffStretched(ClipBoth(n.px, lim.i_min, lim.i_max), n.ret[1], kw)
StiffNormalized(n, kw) == StiffClipped(n, min_inten(n.px, kw), kw)
setup_stiff(px, kw) == StiffNormalized(Normalize(px, One, 0), kw)

-----------------------------------------------------------------------------
(* SpecStiff: one Frame through _min_inten and setup_stiff, and the static  *)
(* stretch functions on its pixel array                                     *)

MaxStiffOps == 2

\* a pixel just below the threshold of a preset (by 5e-5) and the pixel on it
AtThreshold(mode) == <<def_kwargs[mode].i_t - 10, def_kwargs[mode].i_t>>

StiffImages ==
    { <<0, Half, One>>,
      <<0, 0, One>>,
      <<1, Half, One>>,
      <<0, Half, One + 3>>,
      <<Half, Half, Half>>,
      <<-Half, One, 3 * One>>,
      <<-3 * One, -2 * One, -One>>,
      <<One \div 500, One \div 250, One \div 200>> }
    \cup { AtThreshold(mode) : mode \in DOMAIN def_kwargs }

\* keyword arguments of the calls: the nine accepted pairs of modes, masks
\* (one selecting nothing), other grey levels, and modes outside the sets
MinIntenArgs ==
    { kw @@ StiffDefaults : kw \in
        { [sky_mode |-> sky, max_mode |-> max] :
            sky \in {"quantile", "median", "debug"},
            max \in {"quantile", "max", "debug"} }
        \cup { [mask |-> <<FALSE, FALSE, FALSE>>], [mask |-> <<TRUE, FALSE, TRUE>>],
               [gamma_lum |-> <<2, 1>>], [grey_level |-> Half],
               [sky_mode |-> "mean"], [max_mode |-> "min"] } }
StiffKwargs ==
    { kw @@ StiffDefaults : kw \in
        { [gamma |-> <<2, 1>>, a |-> One, b |-> 0, i_t |-> 0],
          [legacy |-> TRUE, stiff_mode |-> "prepi", gamma |-> <<1, 1>>, a |-> 3 * One,
           b |-> One \div 20, i_t |-> One \div 1000, sky_mode |-> "quantile",
           max_mode |-> "max"],
          [legacy |-> TRUE, stiff_mode |-> "linear", gamma |-> <<2, 1>>, a |-> One,
           b |-> 0, i_t |-> 0] } }
IdentityStiff == [gamma |-> <<1, 1>>, a |-> One, b |-> 0, i_t |-> 0,
                  sky_mode |-> "debug", max_mode |-> "max"]
SetupStiffArgs ==
    StiffKwargs \cup
    { kw @@ StiffDefaults : kw \in
        { IdentityStiff, [IdentityStiff EXCEPT !.i_t = Half],
          [legacy |-> TRUE] @@ IdentityStiff } }
StretchKwargs ==
    { [legacy |-> TRUE, stiff_mode |-> mode] @@ StiffDefaults :
        mode \in DOMAIN def_kwargs \cup {"linear"} }
    \cup { def_kwargs[mode] @@ StiffDefaults : mode \in DOMAIN def_kwargs }

StiffCall(op, kw, err, ret, n) ==
    [op |-> op, kw |-> kw, err |-> err, ret |-> ret, pre |-> image, n |-> n]

InitStiff ==
    /\ image \in StiffImages
    /\ background = NaN
    /\ constructed = FALSE
    /\ NoPicture
    /\ last = [op |-> "raw", kw |-> <<>>, err |-> NoErr, ret |-> <<>>, pre |-> <<>>,
               n |-> 0]

\* Frame(image, band): __init__ with the default clip and nanmode
FrameNewDefault ==
    \E r \in {ClipAndNan(image, DefaultClip, "max")} :
        /\ ~constructed
        /\ last.op = "raw"
        /\ background' = NanMedian(image)
        /\ image' = r.px
        /\ constructed' = (r.err = NoErr)
        /\ last' = StiffCall("__init__", <<>>, r.err, <<>>, 0)
        /\ UNCHANGED pictureVars

\* frame._min_inten(**kw): returns (i_min, i_max), the frame is left alone
FrameMinInten ==
    \E kw \in MinIntenArgs :
        \E r \in {min_inten(image, kw)} :
            /\ constructed
            /\ last' = StiffCall("_min_inten", kw, r.err, <<r.i_min, r.i_max>>, last.n)
            /\ UNCHANGED <<image, background, constructed, pictureVars>>

\* frame.setup_stiff(**kw): an exception leaves the array normalized and
\* clipped in place
FrameSetupStiff ==
    \E kw \in SetupStiffArgs :
        \E r \in {setup_stiff(image, kw)} :
            /\ constructed
            /\ last.n < MaxStiffOps
            /\ image' = (IF r.err = NoErr THEN r.new ELSE r.old)
            /\ last' = StiffCall("setup_stiff", kw, r.err, <<>>, last.n + 1)
            /\ UNCHANGED <<background, constructed, pictureVars>>

\* Frame.stiff_stretch(image, **kw) or Frame.stiff_stretch_legacy(image, **kw),
\* as kw.legacy says: static, on the raw array, returning the stretched array
StaticStretch ==
    /\ ~constructed
    /\ \E kw \in StretchKwargs :
           \E r \in {StiffStretched(image, One, kw)} :
               /\ last' = StiffCall(IF kw.legacy THEN "stiff_stretch_legacy"
                                    ELSE "stiff_stretch",
                                    kw, r.err, r.new, last.n)
               /\ UNCHANGED <<image, background, constructed, pictureVars>>

NextStiff ==
    \/ FrameNewDefault
    \/ FrameMinInten
    \/ FrameSetupStiff
    \/ StaticStretch

SpecStiff == InitStiff /\ [][NextStiff]_vars

-----------------------------------------------------------------------------
(* RGBPicture: the channel set *)

Result(cs, hp, err) == [cs |-> cs, heap |-> hp, err |-> err]

\* copy.copy(frame): a new Frame on the same ndarray
copy(hp, f) == [frame |-> f, heap |-> hp]

\* faulty variant: the isolated copy shares the ndarray
deepcopy_shallow(hp, f) == copy(hp, f)

\* copy.deepcopy(frame): a new Frame on a new ndarray with the same contents
deepcopy(hp, f) ==
    [frame |-> [f EXCEPT !.image = Len(hp) + 1], heap |-> Append(hp, hp[f.image])]

\* len(bands) != len(set(bands))
HasDuplicates(bs) == \E i, j \in 1 .. Len(bs) : i # j /\ bs[i] = bs[j]

\* frames_dict[name]: of the frames with that band name the last one
frames_dict(fs, name) ==
    fs[CHOOSE i \in 1 .. Len(fs) :
          /\ fs[i].band.name = name
          /\ \A j \in (i + 1) .. Len(fs) : fs[j].band.name # name]

\* list(map(copyfct, frames)): the copies are made first to last
AddCopy(acc, c) == [cs |-> Append(acc.cs, c.frame), heap |-> c.heap]
CopyNext(acc, f, single) ==
    AddCopy(acc, IF single THEN copy(acc.heap, f) ELSE deepcopy(acc.heap, f))
RECURSIVE CopyAll(_, _, _)
CopyAll(sel, hp, single) ==
    IF sel = <<>> THEN [cs |-> <<>>, heap |-> hp]
    ELSE CopyNext(CopyAll(SubSeq(sel, 1, Len(sel) - 1), hp, single),
                  sel[Len(sel)], single)

\* every channel has a wavelength and they are not in non-increasing order
Unordered(cs) ==
    /\ \A i \in 1 .. Len(cs) : cs[i].band.wavelength # <<>>
    /\ ~ \A i \in 1 .. (Len(cs) - 1) :
            cs[i].band.wavelength[1] >= cs[i + 1].band.wavelength[1]

\* rgb_channels is assigned, then the order of the wavelengths is looked at
Selected(c) ==
    Result(c.cs, c.heap, IF Unordered(c.cs) THEN "UserWarning" ELSE NoErr)

\* itemgetter(*bands)(frames_dict) and the copies: no name is a TypeError of
\* itemgetter, an unknown name a KeyError, and one name gives a Frame, which
\* map cannot iterate over
Lookup(fs, cs, hp, bs, single) ==
    IF Len(bs) = 0 THEN Result(cs, hp, "TypeError")
    ELSE IF \E i \in 1 .. Len(bs) : ~NamePresent(bs[i], fs)
         THEN Result(cs, hp, "KeyError")
    ELSE IF Len(bs) = 1 THEN Result(cs, hp, "TypeError")
    ELSE Selected(CopyAll([i \in 1 .. Len(bs) |-> frames_dict(fs, bs[i])], hp, single))

\* faulty variant: the duplicate check runs after rgb_channels is assigned
select_check_late(fs, cs, hp, bs, single) ==
    IF Len(bs) > 4 /\ ~HasDuplicates(bs) THEN Result(cs, hp, "ValueError")
    ELSE IF HasDuplicates(bs)
         THEN [Lookup(fs, cs, hp, bs, single) EXCEPT !.err = "ValueError"]
    ELSE Lookup(fs, cs, hp, bs, single)

\* faulty variant: the number of names is not limited
select_no_limit(fs, cs, hp, bs, single) ==
    IF HasDuplicates(bs) THEN Result(cs, hp, "ValueError")
    ELSE Lookup(fs, cs, hp, bs, single)

\* RGBPicture.select_rgb_channels(bands, single): rgb_channels and the heap as
\* the call leaves them, and the exception that reaches the caller
select_rgb_channels(fs, cs, hp, bs, single) ==
    IF HasDuplicates(bs) THEN Result(cs, hp, "ValueError")
    ELSE IF Len(bs) > 4 THEN Result(cs, hp, "ValueError")
    ELSE Lookup(fs, cs, hp, bs, single)

\* channel.image *= weight, in place
ScaleArray(hp, id, w) ==
    [hp EXCEPT ![id].px = [i \in Idx(hp[id].px) |-> FMul(hp[id].px[i], w)]]

\* for channel, weight in zip(self.rgb_channels, weights)
RECURSIVE Weighted(_, _, _, _)
Weighted(cs, hp, w, k) ==
    IF k = 0 THEN hp
    ELSE ScaleArray(Weighted(cs, hp, w, k - 1), cs[k].image, w[k])

\* RGBPicture.norm_by_weights(weights): "auto" calls the static method
\* clipped_stats without its argument
norm_by_weights(cs, hp, weights) ==
    IF weights.type = "None" THEN Result(cs, hp, NoErr)
    ELSE IF weights.type = "str" /\ weights.v = "auto"
         THEN Result(cs, hp, IF cs = <<>> THEN "ValueError" ELSE "TypeError")
    ELSE IF weights.type = "str" THEN Result(cs, hp, "ValueError")
    ELSE Result(cs, Weighted(cs, hp, weights.v,
                         IF Len(cs) < Len(weights.v) THEN Len(cs) ELSE Len(weights.v)), NoErr)

\* setup_stiff on channel k: the old array changed in place, self.image
\* rebound to a new array
StiffOn(s, k, r) ==
    IF r.err # NoErr
    THEN Result(s.cs, [s.heap EXCEPT ![s.cs[k].image].px = r.old], r.err)
    ELSE Result([s.cs EXCEPT ![k].image = Len(s.heap) + 1],
                Append([s.heap EXCEPT ![s.cs[k].image].px = r.old],
                       NewArray(s.heap[s.cs[k].image].shape, r.new)),
                NoErr)
StretchNext(s, k, kw) ==
    IF s.err # NoErr THEN s
    ELSE StiffOn(s, k, setup_stiff(s.heap[s.cs[k].image].px, kw))
RECURSIVE Stretched(_, _, _, _)
Stretched(cs, hp, kw, k) ==
    IF k = 0 THEN Result(cs, hp, NoErr)
    ELSE StretchNext(Stretched(cs, hp, kw, k - 1), k, kw)

\* RGBPicture.stretch_rgb_channels(mode, **kwargs): "auto-light" calls the
\* static method autostretch_light without its image
stretch_rgb_channels(cs, hp, mode, kw) ==
    IF cs = <<>> THEN Result(cs, hp, NoErr)
    ELSE IF mode = "auto-light" THEN Result(cs, hp, "TypeError")
    ELSE IF mode = "stiff" THEN Stretched(cs, hp, kw, Len(cs))
    ELSE Result(cs, hp, "ValueError")

\* the pixels of channel k
Chan(cs, hp, k) == hp[cs[k].image].px

\* RGBPicture.luminance(): the pixel-wise sum of the channels over their number
luminance(cs, hp) ==
    [p \in Idx(Chan(cs, hp, 1)) |->
        FDiv(FSum([k \in 1 .. Len(cs) |-> Chan(cs, hp, k)[p]]), Len(cs) * One)]

\* what the caller passes as stretch_fkt_lum(lum, gamma_lum): the luminance
\* itself, lum ** (1 / gamma_lum), or Frame.stiff_stretch with gamma_lum for
\* gamma and the slope, offset and threshold of "prepi"
stretch_fkt_lum(fkt, lum, gamma_lum) ==
    IF fkt = "linear" THEN lum
    ELSE IF fkt = "gamma" THEN [p \in Idx(lum) |-> FRoot(lum[p], gamma_lum)]
    ELSE [p \in Idx(lum) |->
             stiff_stretch(lum[p], [def_kwargs["prepi"] EXCEPT !.gamma = gamma_lum])]

\* new -= alpha * channels[(i+j) % n_channels], for j = 1 .. n_channels - 1
RECURSIVE SubAll(_, _, _)
SubAll(x, others, alpha) ==
    IF others = <<>> THEN x
    ELSE FSub(SubAll(x, SubSeq(others, 1, Len(others) - 1), alpha),
              FMul(alpha, others[Len(others)]))

ZeroNeg(x) == IF FLt(x, 0) THEN 0 ELSE x

\* one pixel of one channel through adjust_rgb and stretch_luminance
AdjustPixel(lum, lum_stretched, own, others, alpha) ==
    FMul(FDiv(ZeroNeg(SubAll(FAdd(lum, FMul(FScale(alpha, Len(others)), own)),
                             others, alpha)),
              lum),
         lum_stretched)

Adjusted(cs, hp, lum, lum_stretched, alpha) ==
    [k \in 1 .. Len(cs) |->
        [p \in Idx(lum) |->
            AdjustPixel(lum[p], lum_stretched[p], Chan(cs, hp, k)[p],
                        [j \in 1 .. (Len(cs) - 1) |->
                            Chan(cs, hp, ((k - 1 + j) % Len(cs)) + 1)[p]],
                        alpha)]]

\* channel.image = adjusted: every channel is rebound to a new array
Rebind(cs, hp, arrs) ==
    Result([k \in 1 .. Len(cs) |-> [cs[k] EXCEPT !.image = Len(hp) + k]],
           hp \o [k \in 1 .. Len(cs) |-> NewArray(hp[cs[k].image].shape, arrs[k])],
           NoErr)

AdjustWith(cs, hp, lum, alpha, fkt, gamma_lum) ==
    Rebind(cs, hp, Adjusted(cs, hp, lum, stretch_fkt_lum(fkt, lum, gamma_lum), alpha))

\* RGBPicture.adjust_rgb(alpha, stretch_fkt_lum, gamma_lum)
adjust_rgb(cs, hp, alpha, fkt, gamma_lum) ==
    IF cs = <<>> THEN Result(cs, hp, "ZeroDivisionError")
    ELSE IF Len(cs) > 4 THEN Result(cs, hp, "AssertionError")
    ELSE AdjustWith(cs, hp, luminance(cs, hp), FDiv(alpha, Len(cs) * One),
                    fkt, gamma_lum)

\* np.mean or np.median
meanfct(mode, px) == IF mode = "mean" THEN MeanOf(px) ELSE Median(px)

\* channel.image[mask]; without a mask equalize takes np.full_like(image, True)
Sel(px, mask) == IF mask = <<>> THEN px ELSE Masked(px, mask)

\* one channel through the loop of equalize: divide by the masked maximum,
\* subtract the masked mean, add offset, clip at 0, take the masked mean,
\* normalize
EqNorm(c, mode, norm, mask) ==
    [px |-> IF norm THEN Normalize(c, One, 0).px ELSE c,
     mean |-> meanfct(mode, Sel(c, mask))]
EqShift(a, mode, offset, norm, mask) ==
    EqNorm(ClipLower([i \in Idx(a) |->
                         FAdd(FSub(a[i], meanfct(mode, Sel(a, mask))), offset)], 0),
           mode, norm, mask)
EqualizeArray(px, mode, offset, norm, mask) ==
    EqShift([i \in Idx(px) |-> FDiv(px[i], NanMax(Sel(px, mask)))],
            mode, offset, norm, mask)

EqStore(acc, id, r) ==
    [heap |-> [acc.heap EXCEPT ![id].px = r.px], means |-> Append(acc.means, r.mean)]
EqNext(acc, id, mode, offset, norm, mask) ==
    EqStore(acc, id, EqualizeArray(acc.heap[id].px, mode, offset, norm, mask))
RECURSIVE Equalized(_, _, _, _, _, _, _)
Equalized(cs, hp, k, mode, offset, norm, mask) ==
    IF k = 0 THEN [heap |-> hp, means |-> <<>>]
    ELSE EqNext(Equalized(cs, hp, k - 1, mode, offset, norm, mask), cs[k].image,
                mode, offset, norm, mask)

\* channel.image *= min(maxmean / mean, 10.)
SuperEq(cs, e) ==
    Weighted(cs, e.heap,
             [k \in 1 .. Len(cs) |->
                 PyMin2(FDiv(PyMax(e.means), e.means[k]), 10 * One)],
             Len(cs))

\* RGBPicture.equalize(mode, offset, norm, supereq, mask): np.nanmax of an
\* empty selection raises ValueError in the first pass of the loop
equalize(cs, hp, mode, offset, norm, supereq, mask) ==
    IF mode \notin {"mean", "median"} THEN Result(cs, hp, "ValueError")
    ELSE IF cs # <<>> /\ mask # <<>> /\ \A i \in Idx(mask) : ~mask[i]
    THEN Result(cs, hp, "ValueError")
    ELSE IF supereq /\ cs = <<>> THEN Result(cs, hp, "ValueError")
    ELSE IF supereq
         THEN Result(cs, SuperEq(cs, Equalized(cs, hp, Len(cs), mode, offset, norm,
                                               mask)),
                     NoErr)
    ELSE Result(cs, Equalized(cs, hp, Len(cs), mode, offset, norm, mask).heap, NoErr)

\* np.max over the stacked channels
RECURSIVE Flat(_)
Flat(arrs) == IF arrs = <<>> THEN <<>> ELSE Head(arrs) \o Flat(Tail(arrs))
ArrayMax(px) == IF HasNaN(px) THEN NaN ELSE SeqMax(px)

\* faulty variant: the alpha channel is not inverted
ScaledNoInvert(rgb, m) ==
    [k \in 1 .. Len(rgb) |-> [p \in Idx(rgb[k]) |-> FDiv(rgb[k][p], m)]]

\* rgb /= rgb.max(), and the alpha channel of four inverted
Scaled(rgb, m) ==
    [k \in 1 .. Len(rgb) |->
        [p \in Idx(rgb[k]) |->
            IF k = 4 /\ Len(rgb) = 4 THEN FSub(One, FDiv(rgb[k][p], m))
            ELSE FDiv(rgb[k][p], m)]]
MoveAxis(rgb) == [p \in Idx(rgb[1]) |-> [k \in 1 .. Len(rgb) |-> rgb[k][p]]]
Stack(cs, hp) == [k \in 1 .. Len(cs) |-> Chan(cs, hp, k)]

\* rgb *= 255. and rgb.astype(np.uint8), one value: the product is truncated
\* towards zero; for a NaN and for a product outside the range of uint8 the
\* conversion is not defined, and junk is what it gives
ToUint8(x, junk) ==
    IF IsFinite(x) /\ Abs(x) <= 2 * One /\ 255 * x > -One /\ 255 * x < 256 * One
    THEN (IF x < 0 THEN 0 ELSE (255 * x) \div One)
    ELSE junk
AsMode(rgb, mode, junk) ==
    IF mode = "0-255"
    THEN [a \in DOMAIN rgb |-> [b \in DOMAIN rgb[a] |-> ToUint8(rgb[a][b], junk)]]
    ELSE rgb

\* RGBPicture.get_rgb_cube(mode, order): the exception and the cube returned
get_rgb_cube(cs, hp, mode, order, junk) ==
    IF cs = <<>> THEN [err |-> "ValueError", ret |-> <<>>]
    ELSE IF order \notin {"cxy", "xyc"} THEN [err |-> "ValueError", ret |-> <<>>]
    ELSE IF mode \notin {"0-1", "0-255"} THEN [err |-> "ValueError", ret |-> <<>>]
    ELSE IF order = "cxy"
         THEN [err |-> NoErr,
               ret |-> AsMode(Scaled(Stack(cs, hp), ArrayMax(Flat(Stack(cs, hp)))),
                              mode, junk)]
    ELSE [err |-> NoErr,
          ret |-> AsMode(MoveAxis(Scaled(Stack(cs, hp), ArrayMax(Flat(Stack(cs, hp))))),
                         mode, junk)]

-----------------------------------------------------------------------------
(* Spec: an RGBPicture built by from_cube, its channel set selected and     *)
(* worked on                                                                *)

MaxOps == 3

\* Picture.from_cube(cube, bands): add_frame for every image of the cube
CubeAppend(p, f) ==
    IF f.err # NoErr THEN [p EXCEPT !.err = f.err]
    ELSE [frames |-> Append(p.frames, f.frame), heap |-> f.heap, err |-> NoErr]
CubeAddChecked(p, arr, c) ==
    IF c.err # NoErr THEN [p EXCEPT !.err = c.err]
    ELSE CubeAppend(p, FrameNew(Append(p.heap, arr), Len(p.heap) + 1, c.band))
CubeAdd(p, arr, b) ==
    IF p.err # NoErr THEN p ELSE CubeAddChecked(p, arr, check_band(p.frames, b))
RECURSIVE CubeFrames(_, _, _)
CubeFrames(images, bs, k) ==
    IF k = 0 THEN [frames |-> <<>>, heap |-> <<>>, err |-> NoErr]
    ELSE CubeAdd(CubeFrames(images, bs, k - 1), images[k], bs[k])
from_cube(images, bs) ==
    IF ~ (\A i \in 1 .. Len(bs) : bs[i].type = "str")
       /\ ~ (\A i \in 1 .. Len(bs) : bs[i].type = "Band")
    THEN [frames |-> <<>>, heap |-> <<>>, err |-> "TypeError"]
    ELSE IF Len(bs) # Len(images)
         THEN [frames |-> <<>>, heap |-> <<>>, err |-> "IndexError"]
    ELSE CubeFrames(images, bs, Len(images))

\* the images of the cubes (1 x 3 each)
CubeImage(k) ==
    NewArray(<<1, 3>>,
             CASE k = 1 -> <<0, Half, One>>
               [] k = 2 -> <<One \div 5, One, 2 * One>>
               [] k = 3 -> <<One, Half, One \div 10>>
               [] k = 4 -> <<Half, Half, 3 * One>>
               [] OTHER -> <<0, 0, One>>)
BandIn(name, wavelength) == [type |-> "Band", band |-> Band(name, name, wavelength)]
StrIn(name) == [type |-> "str", name |-> name]

\* the band lists the cubes come with: five bands, four by descending
\* wavelength and one without; two plain names; two bands of one name; and
\* lists from_cube turns down
CubeBands ==
    { <<BandIn("I", <<4>>), BandIn("R", <<3>>), BandIn("G", <<2>>),
        BandIn("B", <<1>>), BandIn("U", <<>>)>>,
      <<StrIn("R"), StrIn("G")>>,
      <<BandIn("R", <<3>>), BandIn("G", <<2>>), BandIn("R", <<5>>)>>,
      <<StrIn("R"), StrIn("G"), StrIn("R")>>,
      <<StrIn("R"), BandIn("G", <<2>>)>> }

\* the arguments of the calls
BandLists ==
    { <<"B", "G", "R">>, <<"I", "R", "G", "B">>, <<"R", "U">>, <<"R", "G">>, <<>>, <<"R">>, <<"R", "X">>, <<"R", "R", "G">>,
      <<"I", "R", "G", "B", "U">>, <<"R", "R", "G", "B", "I">> }
Weights ==
    { [type |-> "None"], [type |-> "str", v |-> "auto"], [type |-> "str", v |-> "equal"],
      [type |-> "list", v |-> <<2 * One, One, Half>>] }
StretchArgs ==
    { <<"stiff", kw>> : kw \in StiffKwargs } \cup
    { <<mode, CHOOSE kw \in StiffKwargs : ~kw.legacy>> : mode \in {"auto-light", "auto"} }
AdjustArgs == { <<One, "linear", <<1, 1>>>>, <<2 * One, "gamma", <<2, 1>>>> }
EqualizeArgs ==
    { <<"mean", Half, TRUE, FALSE, <<>>>>, <<"median", Half, FALSE, TRUE, <<>>>>,
      <<"max", Half, TRUE, FALSE, <<>>>> }
CubeArgs ==
    { <<"0-1", "cxy">>, <<"0-1", "xyc">>, <<"0-1", "cyx">>, <<"1-0", "cxy">>,
      <<"0-255", "cxy">>, <<"0-255", "xyc">> }
\* what the conversion to uint8 gives where it is not defined
Uint8Junk == {0, 255}

ChannelOps ==
    {"norm_by_weights", "stretch_rgb_channels", "adjust_rgb", "equalize",
     "get_rgb_cube"}

\* every selected channel has a wavelength and the wavelengths are not
\* non-increasing from first to last
WavelengthsUnordered(fs, bs) ==
    /\ Len(bs) \in 2 .. 4
    /\ ~HasDuplicates(bs)
    /\ \A i \in 1 .. Len(bs) : NamePresent(bs[i], fs)
    /\ Unordered([i \in 1 .. Len(bs) |-> frames_dict(fs, bs[i])])

\* the last call: op and err, what its arguments were like (for a select
\* the band list, for the others the mode strings), what the channels were
\* like before it, the copy mode the channel set was made with, the number of
\* calls that changed the picture, and the value returned
Call(op, err, sel, mode, n, ret) ==
    [op |-> op, err |-> err, dup |-> sel.dup, nbands |-> sel.nbands,
     unordered |-> sel.unordered, arg |-> sel.arg, pre |-> sel.pre,
     copy |-> mode, n |-> n, ret |-> ret]
NoSelect == [dup |-> FALSE, nbands |-> 0, unordered |-> FALSE, arg |-> <<>>, pre |-> <<>>]

Init ==
    \E bs \in CubeBands :
        \E p \in {from_cube([k \in 1 .. Len(bs) |-> CubeImage(k)], bs)} :
            /\ p.err = NoErr
            /\ frames = p.frames
            /\ heap = p.heap
            /\ rgb_channels = <<>>
            /\ IdleFrame
            /\ last = Call("from_cube", NoErr, NoSelect, "none", 0, <<>>)

\* the state a call on the channel set leaves
Changed(r) == r.cs # rgb_channels \/ r.heap # heap
Left(op, r, arg, pre) ==
    \E g \in {Collect(frames, r.cs, r.heap)} :
        /\ frames' = g.frames
        /\ rgb_channels' = g.rgb_channels
        /\ heap' = g.heap
        /\ last' = Call(op, r.err, [NoSelect EXCEPT !.arg = arg, !.pre = pre], last.copy,
                        IF Changed(r) THEN last.n + 1 ELSE last.n, <<>>)
        /\ UNCHANGED frameVars

select ==
    \E bs \in BandLists, single \in BOOLEAN :
        \E r \in {select_rgb_channels(frames, rgb_channels, heap, bs, single)} :
            \E g \in {Collect(frames, r.cs, r.heap)} :
                /\ last.n < MaxOps
                /\ frames' = g.frames
                /\ rgb_channels' = g.rgb_channels
                /\ heap' = g.heap
                /\ last' = Call("select_rgb_channels", r.err,
                                [NoSelect EXCEPT
                                    !.dup = HasDuplicates(bs), !.nbands = Len(bs),
                                    !.unordered = WavelengthsUnordered(frames, bs)],
                                IF ~Changed(r) THEN last.copy
                                ELSE IF single THEN "shared" ELSE "isolated",
                                IF Changed(r) THEN last.n + 1 ELSE last.n, <<>>)
                /\ UNCHANGED frameVars

weight ==
    \E w \in Weights :
        /\ last.n < MaxOps
        /\ Left("norm_by_weights", norm_by_weights(rgb_channels, heap, w),
                <<IF w.type = "str" THEN w.v ELSE w.type>>, <<>>)

stretch ==
    \E a \in StretchArgs :
        /\ last.n < MaxOps
        /\ Left("stretch_rgb_channels",
                stretch_rgb_channels(rgb_channels, heap, a[1], a[2]), <<a[1]>>, <<>>)

\* what adjust_rgb is given: the luminance, its stretch, and whether the
\* channels are pixel-wise equal to each other
BeforeAdjust(cs, hp, lum, fkt, gamma_lum) ==
    [lum |-> lum, lum_stretched |-> stretch_fkt_lum(fkt, lum, gamma_lum),
     equal |-> \A k \in 1 .. Len(cs) : \A p \in Idx(lum) :
                   /\ Chan(cs, hp, k)[p] = Chan(cs, hp, 1)[p]
                   /\ ~IsNaN(Chan(cs, hp, k)[p])]
AdjustFrom(args) ==
    \E a \in args :
        /\ last.n < MaxOps
        /\ Left("adjust_rgb", adjust_rgb(rgb_channels, heap, a[1], a[2], a[3]),
                <<a[2]>>,
                IF rgb_channels = <<>> THEN <<>>
                ELSE BeforeAdjust(rgb_channels, heap, luminance(rgb_channels, heap),
                                  a[2], a[3]))
adjust == AdjustFrom(AdjustArgs)

EqualiseFrom(args) ==
    \E a \in args :
        /\ last.n < MaxOps
        /\ Left("equalize",
                equalize(rgb_channels, heap, a[1], a[2], a[3], a[4], a[5]),
                <<a[1]>>, a)
equalise == EqualiseFrom(EqualizeArgs)

assemble ==
    \E a \in CubeArgs, junk \in Uint8Junk :
        \E r \in {get_rgb_cube(rgb_channels, heap, a[1], a[2], junk)} :
            /\ last' = Call("get_rgb_cube", r.err,
                            [NoSelect EXCEPT !.arg = a,
                                             !.pre = Stack(rgb_channels, heap)],
                            last.copy, last.n, r.ret)
            /\ UNCHANGED <<frames, rgb_channels, heap, frameVars>>

Next ==
    \/ select
    \/ weight
    \/ stretch
    \/ adjust
    \/ equalise
    \/ assemble

Spec == Init /\ [][Next]_vars

-----------------------------------------------------------------------------
(* SpecChannel: an RGBPicture of three images (1 x 2) named R, G and B      *)
(* through select_rgb_channels, adjust_rgb and equalize with a mask         *)

\* the cubes: equal constant images, equal images with a zero pixel, images
\* whose luminance is zero at a pixel, images of low luminance, images with
\* negative pixels, and images of which one dominates a pixel
ChannelCubes ==
    { <<<<5 * One, 5 * One>>, <<5 * One, 5 * One>>, <<5 * One, 5 * One>>>>,
      <<<<0, One>>, <<0, One>>, <<0, One>>>>,
      <<<<0, One>>, <<0, Half>>, <<0, 2 * One>>>>,
      <<<<One \div 50, One>>, <<One \div 50, Half>>, <<One \div 50, One \div 5>>>>,
      <<<<-3 * One, One>>, <<One, Half>>, <<One, 2 * One>>>>,
      <<<<One, Half>>, <<0, One>>, <<0, One \div 5>>>> }

InitChannel ==
    \E images \in ChannelCubes :
        \E p \in {from_cube([k \in 1 .. 3 |-> NewArray(<<1, 2>>, images[k])],
                            <<StrIn("R"), StrIn("G"), StrIn("B")>>)} :
            /\ p.err = NoErr
            /\ frames = p.frames
            /\ heap = p.heap
            /\ rgb_channels = <<>>
            /\ IdleFrame
            /\ last = Call("from_cube", NoErr, NoSelect, "none", 0, <<>>)

\* adjust_rgb also without saturation change and with the STIFF function for
\* the luminance
adjustAny ==
    AdjustFrom(AdjustArgs \cup { <<0, "linear", <<1, 1>>>>, <<One, "stiff", <<1, 1>>>>,
                                 <<2 * One, "stiff", <<2, 1>>>> })

\* equalize also with a mask that selects nothing and one that selects a pixel
equaliseMasked ==
    EqualiseFrom(EqualizeArgs \cup { <<"mean", Half, TRUE, FALSE, <<FALSE, FALSE>>>>,
                                     <<"median", Half, FALSE, FALSE, <<FALSE, FALSE>>>>,
                                     <<"mean", Half, FALSE, FALSE, <<FALSE, TRUE>>>> })

NextChannel ==
    \/ select
    \/ adjustAny
    \/ equaliseMasked

SpecChannel == InitChannel /\ [][NextChannel]_vars

-----------------------------------------------------------------------------
(* SpecLife: an RGBPicture of two Frames (1 x 3) named R and G through the  *)
(* methods of its Frames and the operations on its channel set              *)

MaxLifeOps == 2

\* the cubes: raw images with NaNs, with most pixels equal, and far from 0
LifeCubes ==
    { << <<NaN, Half, One>>, <<One \div 5, One, 2 * One>> >>,
      << <<0, 0, One>>, <<One, Half, One \div 10>> >>,
      << <<10 * One, 11 * One, 12 * One>>, <<Half, Half, 3 * One>> >> }

InitLife ==
    \E images \in LifeCubes :
        \E p \in {from_cube([k \in 1 .. 2 |-> NewArray(<<1, 3>>, images[k])],
                            <<StrIn("R"), StrIn("G")>>)} :
            /\ p.err = NoErr
            /\ frames = p.frames
            /\ heap = p.heap
            /\ rgb_channels = <<>>
            /\ IdleFrame
            /\ last = Call("from_cube", NoErr, [NoSelect EXCEPT !.pre = images],
                           "none", 0, <<>>)

\* the pixels of Frame i of the Picture, and the state a method of that Frame
\* leaves when it leaves px in the Frame's array
FramePixels(i) == heap[frames[i].image].px
OnFrame(op, i, px, err, arg) ==
    Left(op, Result(rgb_channels, [heap EXCEPT ![frames[i].image].px = px], err),
         arg, <<>>)

\* picture.frames[i].clip(n_sigma, lower)
frame_clip ==
    \E i \in 1 .. Len(frames), lower \in BOOLEAN :
        /\ last.n < MaxLifeOps
        /\ OnFrame("clip", i, Clip(FramePixels(i), frames[i].background, 1, lower),
                   NoErr, <<1, lower>>)

\* picture.frames[i].clip_and_nan(clip, nanmode)
frame_clip_and_nan ==
    \E i \in 1 .. Len(frames), a \in { <<1, "median">>, <<0, "max">> } :
        \E r \in {ClipAndNan(FramePixels(i), a[1], a[2])} :
            /\ last.n < MaxLifeOps
            /\ OnFrame("clip_and_nan", i, r.px, r.err, a)

\* picture.frames[i].normalize(new_range, new_offset)
frame_normalize ==
    \E i \in 1 .. Len(frames), a \in { <<One, Half>>, <<2 * One, 0>> } :
        /\ last.n < MaxLifeOps
        /\ OnFrame("normalize", i, Normalize(FramePixels(i), a[1], a[2]).px, NoErr, a)

\* equalize with and without the cross-channel step: the call is recorded
\* with its arguments and the channel set it found
equaliseCross ==
    \E a \in { <<"mean", Half, TRUE, TRUE, <<>>>>, <<"median", Half, FALSE, TRUE, <<>>>>,
               <<"mean", 0, FALSE, TRUE, <<>>>>, <<"mean", Half, TRUE, FALSE, <<>>>> } :
        /\ last.n < MaxLifeOps
        /\ Left("equalize", equalize(rgb_channels, heap, a[1], a[2], a[3], a[4], a[5]),
                <<a[1]>>, <<a, rgb_channels, heap>>)

NextLife ==
    \/ (last.n < MaxLifeOps /\ select)
    \/ (last.n < MaxLifeOps /\ stretch)
    \/ (last.n < MaxLifeOps /\ adjust)
    \/ equaliseCross
    \/ frame_clip
    \/ frame_clip_and_nan
    \/ frame_normalize

SpecLife == InitLife /\ [][NextLife]_vars

-----------------------------------------------------------------------------
(* Properties of one Frame (SpecFrame) *)

ClipAndNanCalled == last.op \in {"__init__", "clip_and_nan"}
ClipSigma == last.args[1]
NanMode == last.args[2]
\* mean + clip_sigma * stddev of the non-NaN pixels the call was given
ClipThreshold == FAdd(NanMean(last.pre), FScale(NanStd(last.pre), ClipSigma))

\* C7 (as claimed): for every input array, all-NaN arrays included, and every
\* clip_sigma > 0 with a valid nan_fill_mode, clip_and_nan leaves no NaN in the
\* pixel array and no value above mean + clip_sigma * stddev of the non-NaN input.
C7_NoNanNoOutlier ==
    (ClipAndNanCalled /\ ClipSigma > 0 /\ NanMode \in {"max", "median"})
        => /\ ~HasNaN(image)
           /\ \A i \in Idx(image) : ~FLt(ClipThreshold, image[i])

\* C8: clip_and_nan with clip_sigma > 0 clips from above only: a non-NaN pixel
\* at most upper = mean + clip_sigma * stddev (of the array as given) keeps its
\* value, a pixel above upper becomes exactly upper; no pixel is raised.
C8_UpperClipOnly ==
    (ClipAndNanCalled /\ ClipSigma > 0)
        => \A i \in Idx(image) :
              LET x == last.pre[i]
              IN  ~IsNaN(x) =>
                      IF FLe(x, ClipThreshold) THEN image[i] = x
                      ELSE image[i] = ClipThreshold

C8_Witness ==
    /\ ClipAndNanCalled /\ ClipSigma > 0 /\ last.err = NoErr
    /\ \E i \in Idx(image) : FLt(ClipThreshold, last.pre[i]) /\ image[i] = ClipThreshold
    /\ \E i \in Idx(image) : FLt(last.pre[i], NanMean(last.pre)) /\ image[i] = last.pre[i]

DefaultNormalize(c) == c.op = "normalize" /\ c.args = <<One, 0>> /\ c.nondeg

\* C9 (as claimed): normalize with the default targets, on a non-degenerate
\* array, leaves min = 0 and max = 1 within 1e-5, and a second such call
\* leaves the pixels as the first call left them.
C9_NormalizeIdempotent ==
    DefaultNormalize(last)
        => /\ Abs(SeqMin(image)) <= Atol
           /\ Abs(SeqMax(image) - One) <= Atol
           /\ DefaultNormalize(last.prev) => image = last.pre

\* C9 (amended): as claimed, with the maximum within 2e-5 of 1 (the tolerance
\* atol + rtol * 1 of the short-circuit test) and the minimum within 1e-5 of 0.
C9_NormalizeIdempotentTol ==
    DefaultNormalize(last)
        => /\ Abs(SeqMin(image)) <= Atol
           /\ Abs(SeqMax(image) - One) <= 2 * Atol
           /\ DefaultNormalize(last.prev) => image = last.pre

C9_Witness ==
    /\ DefaultNormalize(last) /\ DefaultNormalize(last.prev)
    /\ SeqMin(image) = 0 /\ SeqMax(image) = One
    /\ image = last.pre

\* C10 (as claimed): for a non-degenerate array and target_range > 0,
\* normalize(target_range, target_offset) leaves the linear rescale of the
\* input, with min = target_offset and max = target_offset + target_range,
\* also when the input already spans [0, 1].
C10_NormalizeTargets ==
    (last.op = "normalize" /\ last.nondeg /\ last.args[1] > 0)
        => /\ SeqMin(image) = last.args[2]
           /\ SeqMax(image) = last.args[2] + last.args[1]
           /\ image = Rescale(last.pre, SeqMin(last.pre),
                              SeqMax(last.pre) - SeqMin(last.pre),
                              last.args[1], last.args[2])

-----------------------------------------------------------------------------
(* Properties of a Picture's frame list (SpecPicture) *)

Adding == last.op \in {"add_frame", "add_frame_from_file"}

\* C5 (as claimed): no two Frames of a Picture have the same Band name, and
\* add_frame / add_frame_from_file given a band whose name is already present
\* fail with a band-exists error.
C5_UniqueBandNames ==
    /\ \A i, j \in 1 .. Len(frames) :
          frames[i].band.name = frames[j].band.name => i = j
    /\ (Adding /\ last.present) => last.err = "BandExistsError"

\* C6 (as claimed): all Frames of a Picture have the same pixel-array shape,
\* so the cube property can always stack them.
C6_SameShapes ==
    /\ SameShapes(frames)
    /\ (last.op = "cube" /\ frames # <<>>) => last.err = NoErr

-----------------------------------------------------------------------------
(* Properties of the channel set (Spec) *)

Selecting == last.op = "select_rgb_channels"

\* what the source Picture holds: band, background and pixels of every Frame
SourceView ==
    [i \in 1 .. Len(frames) |->
        [band |-> frames[i].band, background |-> frames[i].background,
         image |-> heap[frames[i].image]]]

\* C1: select_rgb_channels called with a band list that holds a name twice
\* fails with ValueError before any Frame is copied: the channel set selected
\* before and every Frame of the Picture are as they were before the call.
C1_DuplicateRejectedFirst ==
    [][(Selecting' /\ last'.dup)
        => (last'.err = "ValueError" /\ UNCHANGED <<frames, rgb_channels, heap>>)]_vars

C1_Witness ==
    /\ Selecting /\ last.dup /\ last.err = "ValueError"
    /\ Len(rgb_channels) >= 2

\* C2: select_rgb_channels accepts 2 to 4 names only: more than 4 names fail
\* with ValueError, a call with no name or one name fails, a call that returns
\* normally leaves as many channels as it was given names, between 2 and 4, and
\* the channel set never holds exactly one Frame nor, once selected, none.
C2_TwoToFourChannels ==
    /\ (Selecting /\ last.nbands > 4) => last.err = "ValueError"
    /\ (Selecting /\ last.nbands < 2) => last.err \notin {NoErr, "UserWarning"}
    /\ (Selecting /\ last.err = NoErr) =>
          (Len(rgb_channels) = last.nbands /\ last.nbands \in 2 .. 4)
    /\ Len(rgb_channels) \in {0, 2, 3, 4}
    /\ (rgb_channels = <<>>) = (last.copy = "none")

C2_Witness ==
    /\ Selecting /\ last.nbands = 5 /\ ~last.dup /\ last.err = "ValueError"
    /\ \A i, j \in 1 .. Len(frames) : frames[i].band.name = frames[j].band.name => i = j
    /\ Len(frames) = 5

\* C3 (as claimed): when every selected channel has a wavelength and the
\* wavelengths are not non-increasing from first to last, select_rgb_channels
\* only warns: the call returns normally, no exception reaches the caller.
C3_WarningOnly ==
    (Selecting /\ last.unordered) => last.err = NoErr

\* C4: once the channel set was selected with single=False, no call of
\* norm_by_weights, stretch_rgb_channels, adjust_rgb, equalize or get_rgb_cube
\* changes the pixels, the background or the band of a Frame of the Picture.
C4_IsolatedCopies ==
    [][(last.copy = "isolated" /\ last'.op \in ChannelOps)
        => SourceView' = SourceView]_vars

C4_Witness ==
    /\ last.copy = "isolated"
    /\ last.op \in {"equalize", "norm_by_weights", "stretch_rgb_channels"}
    /\ last.err = NoErr
    /\ \E k \in 1 .. Len(rgb_channels) :
          Chan(rgb_channels, heap, k)
            # heap[frames_dict(frames, rgb_channels[k].band.name).image].px

\* C15 (as claimed): the pixel array of a Frame holds no NaN and no Inf after
\* construction and after every sequence of clip and normalize calls (and of
\* setup_stiff, which starts with normalize), also on a constant array.
C15_AlwaysFinite ==
    constructed => \A i \in Idx(image) : IsFinite(image[i])

\* C23 (as claimed): in every state reached by construction, normalize and
\* earlier clip calls, a clip call with any n_sigma, with or without lower,
\* leaves [min(pixels), max(pixels)] inside the interval it found: the maximum
\* does not increase and the minimum does not decrease.
C23_ClipTightens ==
    (last.op = "clip")
        => /\ FLe(NanMax(image), NanMax(last.pre))
           /\ FLe(NanMin(last.pre), NanMin(image))

-----------------------------------------------------------------------------
(* Properties of the STIFF stretch (SpecStiff) *)

MinIntenReturned == last.op = "_min_inten" /\ last.err = NoErr

\* C11 (as claimed): for every pixel array, mask, grey_level and gamma_lum and
\* every accepted pair of sky_mode and max_mode, "debug" included, _min_inten
\* returns (i_min, i_max) with 0 <= i_min and i_min <= i_max.
C11_MinBelowMax ==
    MinIntenReturned => (FLe(0, last.ret[1]) /\ FLe(last.ret[1], last.ret[2]))

\* the limits setup_stiff clipped to: _min_inten on the normalized array
StiffLimits == min_inten(Normalize(last.pre, One, 0).px, last.kw)
\* setup_stiff returned from a stretch that is the identity: gamma = 1,
\* slope = 1, offset = 0, i_min = 0 and i_max = 1, on a non-degenerate array
IdentityStretched ==
    /\ last.op = "setup_stiff" /\ last.err = NoErr
    /\ NonDegenerate(last.pre)
    /\ last.kw.gamma = <<1, 1>> /\ last.kw.a = One /\ last.kw.b = 0
    /\ (last.kw.legacy => last.kw.i_t = 0)
    /\ StiffLimits.i_min = 0 /\ StiffLimits.i_max = One

\* C18: when the stretch is the identity, setup_stiff on a non-degenerate
\* array leaves pixels whose range max - min is, to the tolerance of
\* np.isclose, the range of the array it was given.
C18_RangeRestored ==
    IdentityStretched =>
        IsClose(FSub(SeqMax(image), SeqMin(image)),
                FSub(SeqMax(last.pre), SeqMin(last.pre)))

C18_Witness ==
    /\ IdentityStretched
    /\ FSub(SeqMax(last.pre), SeqMin(last.pre)) > 3 * One
    /\ image # last.pre

StiffSetUp == last.op = "setup_stiff" /\ last.err = NoErr
\* what normalize leaves of the array setup_stiff was given, and that array
\* clipped to the limits measured on it
StiffNormal == Normalize(last.pre, One, 0)
StiffClip == ClipBoth(StiffNormal.px, StiffLimits.i_min, StiffLimits.i_max)
Transfer(x, kw) ==
    IF kw.legacy THEN stiff_stretch_legacy(x, Merged(kw)) ELSE stiff_stretch(x, kw)

\* C22: setup_stiff leaves as the Frame's pixels the array obtained in this
\* order: normalize; (i_min, i_max) measured on the normalized pixels; the
\* normalized pixels clipped to [i_min, i_max]; the transfer function applied;
\* the result multiplied by the data_range normalize returned, the range of the
\* array before normalization, not measured again after the clip or the stretch.
C22_StiffOrder ==
    StiffSetUp =>
        image = [i \in Idx(last.pre) |->
                    FMul(Transfer(StiffClip[i], last.kw), StiffNormal.ret[1])]

C22_Witness ==
    /\ StiffSetUp
    /\ NonDegenerate(last.pre)
    /\ StiffNormal.px # last.pre
    /\ StiffClip # StiffNormal.px
    /\ StiffNormal.ret[1] # FSub(NanMax(StiffClip), NanMin(StiffClip))
    /\ \E i \in Idx(image) : Transfer(StiffClip[i], last.kw) # StiffClip[i]

\* C20 (as claimed): for every preset of the table, at the preset's threshold
\* t the linear branch slope * t and the power-law branch, which is what
\* stiff_stretch returns for the pixel t, differ by less than 0.01.
C20_PresetContinuous ==
    (/\ last.op = "stiff_stretch" /\ last.err = NoErr
     /\ \E mode \in DOMAIN def_kwargs :
           /\ last.pre = AtThreshold(mode)
           /\ \A k \in DOMAIN def_kwargs[mode] : last.kw[k] = def_kwargs[mode][k])
    => Abs(FSub(FMul(last.kw.a, last.kw.i_t), last.ret[2])) < One \div 100

-----------------------------------------------------------------------------
(* Properties of adjust_rgb and equalize (SpecChannel) *)

AdjustReturned == last.op = "adjust_rgb" /\ last.err = NoErr
Pixels == Idx(Chan(rgb_channels, heap, 1))

\* C12 (as claimed): after adjust_rgb returns, for every alpha, every
\* luminance stretch function and every channel contents, no pixel of any
\* channel is negative.
C12_NoNegativePixel ==
    AdjustReturned =>
        \A k \in 1 .. Len(rgb_channels) : \A p \in Pixels :
            ~FLt(Chan(rgb_channels, heap, k)[p], 0)

\* C13 (as claimed): at a pixel whose luminance was zero, adjust_rgb does not
\* raise and leaves in every channel a finite number, never NaN or Inf.
C13_ZeroLuminanceGuarded ==
    (last.op = "adjust_rgb" /\ rgb_channels # <<>>) =>
        /\ last.err = NoErr
        /\ \A k \in 1 .. Len(rgb_channels) : \A p \in Pixels :
              last.pre.lum[p] = 0 => IsFinite(Chan(rgb_channels, heap, k)[p])

\* C14 (as claimed): when the channels are pixel-wise equal, adjust_rgb with
\* any alpha does not raise and leaves them pixel-wise equal to each other.
C14_EqualStayEqual ==
    (last.op = "adjust_rgb" /\ rgb_channels # <<>> /\ last.pre.equal) =>
        /\ last.err = NoErr
        /\ \A k \in 1 .. Len(rgb_channels) : \A p \in Pixels :
              /\ ~IsNaN(Chan(rgb_channels, heap, k)[p])
              /\ Chan(rgb_channels, heap, k)[p] = Chan(rgb_channels, heap, 1)[p]

\* C19 (as claimed): with a mask that selects no pixel, equalize does not
\* raise (and does what the same call does without a mask).
C19_EmptyMaskIgnored ==
    (/\ last.op = "equalize"
     /\ rgb_channels # <<>>
     /\ last.arg[1] \in {"mean", "median"}
     /\ last.pre[5] # <<>>
     /\ \A i \in Idx(last.pre[5]) : ~last.pre[5][i])
    => last.err = NoErr

-----------------------------------------------------------------------------
(* Properties of the mode strings (Spec) *)

\* C16 (as claimed): stretch_rgb_channels, equalize and get_rgb_cube raise
\* ValueError for a mode string outside their sets in every state they are
\* called in, also when no channel is selected.
C16_BadModeRaises ==
    /\ (last.op = "stretch_rgb_channels" /\ last.arg[1] \notin {"auto-light", "stiff"})
          => last.err = "ValueError"
    /\ (last.op = "equalize" /\ last.arg[1] \notin {"mean", "median"})
          => last.err = "ValueError"
    /\ (last.op = "get_rgb_cube"
        /\ (last.arg[1] \notin {"0-1", "0-255"} \/ last.arg[2] \notin {"cxy", "xyc"}))
          => last.err = "ValueError"

\* C17 (as claimed): norm_by_weights("auto") completes without error (every
\* channel multiplied by the reciprocal of its clipped median), and any other
\* string raises ValueError.
C17_AutoWeights ==
    /\ (last.op = "norm_by_weights" /\ last.arg = <<"auto">>) => last.err = NoErr
    /\ (last.op = "norm_by_weights" /\ last.arg = <<"equal">>) => last.err = "ValueError"

-----------------------------------------------------------------------------
(* Properties of get_rgb_cube and of the shared channels (Spec) *)

Assembled == last.op = "get_rgb_cube" /\ last.err = NoErr
\* the pixels of the channels, all non-negative with a positive maximum
AllPixels == Flat(Stack(rgb_channels, heap))
NonNegative ==
    /\ \A i \in Idx(AllPixels) : IsFinite(AllPixels[i]) /\ AllPixels[i] >= 0
    /\ SeqMax(AllPixels) > 0
\* the value of the returned cube for pixel p of channel k
CubeAt(k, p) == IF last.arg[2] = "cxy" THEN last.ret[k][p] ELSE last.ret[p][k]
\* the values a cube may hold under its mode, the alpha channel inverted
InRange(norm) ==
    \A k \in 1 .. Len(rgb_channels) : \A p \in Pixels :
        /\ last.arg[1] = "0-1" =>
              /\ CubeAt(k, p) >= 0 /\ CubeAt(k, p) <= One
              /\ CubeAt(k, p) = (IF k = 4 THEN One - FDiv(Chan(rgb_channels, heap, k)[p], norm)
                                 ELSE FDiv(Chan(rgb_channels, heap, k)[p], norm))
        /\ last.arg[1] = "0-255" =>
              /\ CubeAt(k, p) \in 0 .. 255
              /\ CubeAt(k, p) = (255 * (IF k = 4
                                        THEN One - FDiv(Chan(rgb_channels, heap, k)[p], norm)
                                        ELSE FDiv(Chan(rgb_channels, heap, k)[p], norm)))
                                    \div One
\* in mode "0-1", the pixels of the first three channels that hold the value m
\* are returned as 1
MappedToOne(m) ==
    last.arg[1] = "0-1" =>
        \A k \in 1 .. Len(rgb_channels) : \A p \in Pixels :
            (k <= 3 /\ Chan(rgb_channels, heap, k)[p] = m) => CubeAt(k, p) = One
FirstThree ==
    Flat([k \in 1 .. (IF Len(rgb_channels) < 3 THEN Len(rgb_channels) ELSE 3) |->
             Chan(rgb_channels, heap, k)])

\* C25 (as claimed): get_rgb_cube leaves the pixels of every channel unchanged
\* and, for non-negative pixels with a positive joint maximum, returns values
\* in [0, 1] in mode "0-1", the maximum of the first three channels as 1, and
\* integers in 0 .. 255 in mode "0-255", a 4th channel as 1 minus its
\* normalized value.
C25_ReadOnlyView ==
    Assembled =>
        /\ Stack(rgb_channels, heap) = last.pre
        /\ NonNegative => (InRange(SeqMax(AllPixels)) /\ MappedToOne(SeqMax(FirstThree)))

\* C25 (amended): as claimed, with the maximum over all channels, a 4th one
\* included, returned as 1 where a pixel of the first three channels holds it.
C25_ReadOnlyViewJoint ==
    Assembled =>
        /\ Stack(rgb_channels, heap) = last.pre
        /\ NonNegative => (InRange(SeqMax(AllPixels)) /\ MappedToOne(SeqMax(AllPixels)))

C25_Witness ==
    /\ Assembled /\ NonNegative
    /\ Len(rgb_channels) = 4
    /\ last.arg[1] = "0-1"
    /\ SeqMax(FirstThree) < SeqMax(AllPixels)
    /\ \E p \in Pixels : CubeAt(4, p) = 0

\* the pixels of the Frame of the Picture that channel k was copied from
SourcePixels(k) == heap[frames_dict(frames, rgb_channels[k].band.name).image].px

\* C26 (as claimed): once the channel set was selected with single=True, after
\* every sequence of norm_by_weights, stretch_rgb_channels, adjust_rgb and
\* equalize calls the pixels of each channel are the pixels of the Frame of the
\* Picture it was copied from.
C26_SharedStayAliased ==
    last.copy = "shared" =>
        \A k \in 1 .. Len(rgb_channels) : Chan(rgb_channels, heap, k) = SourcePixels(k)

-----------------------------------------------------------------------------
(* Properties of the Frames of a Picture (SpecLife) *)

Backgrounds == [i \in 1 .. Len(frames) |-> frames[i].background]

\* C21: the background of a Frame is the NaN-ignoring median of the raw array,
\* as it was before clip_and_nan ran at construction, and no later call (clip,
\* clip_and_nan, normalize, setup_stiff, equalize, adjust_rgb, in any order)
\* changes the background of a Frame of the Picture or gives a channel another
\* background than that of the Frame it was copied from.
C21_BackgroundFixed ==
    /\ last.op = "from_cube" =>
          \A i \in 1 .. Len(frames) : frames[i].background = NanMedian(last.pre[i])
    /\ [][/\ Backgrounds' = Backgrounds
          /\ \A k \in 1 .. Len(rgb_channels') :
                rgb_channels'[k].background
                    = frames_dict(frames', rgb_channels'[k].band.name).background]_vars

C21_Witness ==
    /\ last.op \in {"clip", "normalize", "clip_and_nan", "stretch_rgb_channels",
                    "equalize", "adjust_rgb"}
    /\ last.err = NoErr /\ last.n = MaxLifeOps
    /\ rgb_channels # <<>>
    /\ \A i \in 1 .. Len(frames) : frames[i].background # NanMedian(FramePixels(i))
    /\ \A k \in 1 .. Len(rgb_channels) :
          rgb_channels[k].background # NanMedian(Chan(rgb_channels, heap, k))

\* equalize returned from a call with the cross-channel step
CrossEqualized == last.op = "equalize" /\ last.err = NoErr /\ last.pre[1][4]
\* channel k as the per-channel steps of that call leave it, the
\* normalization included, and its mean (or median) then
PerChannel(k) ==
    Equalized(last.pre[2], last.pre[3], Len(last.pre[2]), last.pre[1][1],
              last.pre[1][2], last.pre[1][3], last.pre[1][5]).heap[last.pre[2][k].image].px
ThisMean(k) == meanfct(last.pre[1][1], Sel(PerChannel(k), last.pre[1][5]))
MaxMean == PyMax([k \in 1 .. Len(rgb_channels) |-> ThisMean(k)])
Gain(k) == PyMin2(FDiv(MaxMean, ThisMean(k)), 10 * One)

\* C24 (as claimed): equalize with the cross-channel step multiplies every
\* channel by min(max_mean / this_mean, 10), this_mean the mean (or median) of
\* the channel after all of its per-channel steps, the normalization included,
\* and max_mean the largest of them; every gain lies in [1, 10] and the channel
\* with the largest mean is left as the per-channel steps left it.
C24_CappedGain ==
    CrossEqualized =>
        \A k \in 1 .. Len(rgb_channels) :
            /\ FLe(One, Gain(k)) /\ FLe(Gain(k), 10 * One)
            /\ Chan(rgb_channels, heap, k)
                 = [p \in Idx(PerChannel(k)) |-> FMul(PerChannel(k)[p], Gain(k))]
            /\ ThisMean(k) = MaxMean => Chan(rgb_channels, heap, k) = PerChannel(k)

=============================================================================
